---------------------------- MODULE Spec2Model ----------------------------
(***************************************************************************)
(* A model of the server pool and request-dispatch engine of the HTTP load *)
(* balancer: the pool (serverpool.go), the target servers and their health *)
(* state, the background health-check process and listenerHandler /        *)
(* proxyRequestToTarget (main.go).                                         *)
(*                                                                         *)
(* Every goroutine is a process with a program counter.  One step of a     *)
(* process is one access to shared memory (pool.CurrentIndex, a server's   *)
(* Health, pool.PauseHealthCheck) together with the local code around it,  *)
(* so that every interleaving the Go scheduler can produce is a behaviour. *)
(***************************************************************************)
EXTENDS Integers, Sequences, FiniteSets

(***************************************************************************)
(* Bounds of the model.                                                    *)
(***************************************************************************)
\* len(pool.Servers): the number of target servers of the pool.
NumServers ==
    3

\* The number of goroutines that call into the pool at the same time.
NumTasks ==
    2

\* The longest address list NewServerPool is called with.
MaxAddrs ==
    3

\* The longest path prefix and request path singleJoiningSlash is called with.
MaxPathLen ==
    3

\* The most log events, and the most changes of a status, followed when
\* SetStatus() is taken step by step.
MaxEvents ==
    3

\* The most attempts of one request (the first and its retries) whose
\* rewriting by redirectRequestToServer is followed.
MaxAttempts ==
    2

(***************************************************************************)
(* Constants of the program.                                               *)
(***************************************************************************)
StatusDegraded ==
    0

StatusHealthy ==
    1

\* RoundRobin's index when it returns ErrNoHealthyServer.
NoIndex ==
    -1

\* http.StatusOK, http.StatusInternalServerError, http.StatusServiceUnavailable
StatusOK ==
    200

StatusInternalServerError ==
    500

StatusServiceUnavailable ==
    503

\* "No response": RoundTrip returned err != nil (resp is nil), and, for the
\* client side, nothing has been written to the ResponseWriter yet.
NoResponse ==
    0

Servers ==
    0 .. (NumServers - 1)

Tasks ==
    1 .. NumTasks

HealthStatus ==
    {StatusDegraded, StatusHealthy}

\* What a round trip to a target server can give: a transport error
\* (NoResponse) or a response with a status code.  502 stands for the server
\* errors other than 500, 200 and 404 for the statuses that are no server error.
RoundTripResults ==
    {NoResponse, StatusOK, 404, StatusInternalServerError, 502}

\* What the GET <address>/_health of GetNewHealthStatus can give: a transport
\* error, a body that is no JSON, or a HealthResponse with its State string.
ProbeResults ==
    {"neterr", "badjson", "", "healthy", "degraded", "bogus"}

VARIABLES
    Health,             \* Health[i]: pool.Servers[i].Health
    CurrentIndex,       \* pool.CurrentIndex
    PauseHealthCheck,   \* pool.PauseHealthCheck
    pc,                 \* pc[t]: where request/caller goroutine t is
    cnt,                \* cnt[t]: RoundRobin's local cnt
    index,              \* index[t]: RoundRobin's local index, then its result
    resp,               \* resp[t]: the status code of RoundTrip's response
    client,             \* client[t]: the status code written to the client
    why,                \* why[t]: which statement wrote the client's response
    hpc,                \* where the health-check goroutine is
    hidx,               \* the server the health-check pass is at
    hstatus,            \* the status GetNewHealthStatus returned to it
    herr,               \* the error GetNewHealthStatus returned to it
    probed,             \* history: the servers probed in its pass, in order
    probeErrs,          \* history: the errors of these probes, if recorded
    late,               \* history: a request has degraded server hidx since the
                        \* probe whose status is about to be set was made
    resumed,            \* history: "resumed" once ResumeHealthChecks() has ended
                        \* a pause, "probing" once a pass has started after it
    sawHealthy,         \* history: a server was Healthy during t's RoundRobin
    returns,            \* history: the <<t, index>> of every direct RoundRobin call
    startIndex,         \* history: pool.CurrentIndex in the initial state
    observed,           \* history: the goroutines whose requests are recorded
                        \* (0, the health-check goroutine: its probes' errors,
                        \* and late and retried, what the requests do meanwhile)
    tried,              \* history: the <<server, result>> of request t's round trips
    nSel,               \* history: the selections request t has started
    nDeg,               \* history: the Degrade() calls request t has made
    retried,            \* history: retried[t]: the server whose 500 made request t
                        \* select again, during that selection (else NoIndex)
    refreshed,          \* history: the last direct RefreshHealthStatus() call
    everHealthy,        \* history: a server has been Healthy since NewServerPool
    deleted,            \* history: pool.Delete() has been called
    constructed,        \* the last NewServerPool(addrs) call and its result
    joined,             \* the last singleJoiningSlash(a, b) call and its result
    setting,            \* setting[g]: the SetStatus() call goroutine g is in
    nEvents,            \* nEvents[s]: the log events of SetStatus for a change to s
    nChanges            \* history: nChanges[s]: the changes of a server's Health to s

poolVars ==
    <<Health, CurrentIndex, PauseHealthCheck>>

taskVars ==
    <<pc, cnt, index, resp, client, why>>

monitorVars ==
    <<hpc, hidx, hstatus, herr, probed, probeErrs, late, resumed>>

\* The state of the operations that are called on their own: Delete(),
\* NewServerPool(), singleJoiningSlash() and SetStatus() step by step.
auxVars ==
    <<deleted, constructed, joined, setting, nEvents, nChanges>>

recVars ==
    <<returns, startIndex, observed, refreshed, auxVars>>

callVars ==
    <<returns, startIndex, observed, refreshed, everHealthy, auxVars>>

obsVars ==
    <<tried, nSel, nDeg, retried>>

vars ==
    <<Health, CurrentIndex, PauseHealthCheck, pc, cnt, index, resp, client, why,
      hpc, hidx, hstatus, herr, probed, probeErrs, late, resumed, sawHealthy, returns, startIndex, observed,
      tried, nSel, nDeg, retried, refreshed, everHealthy,
      deleted, constructed, joined, setting, nEvents, nChanges>>

(***************************************************************************)
(* TargetServer (the health state of one server).                          *)
(***************************************************************************)
NewTargetServerHealthy ==
    StatusHealthy

\* NewTargetServer: the Health of the TargetServer it returns.  The field is
\* not set, so it has the zero value of HealthStatus, StatusDegraded.
NewTargetServer ==
    StatusDegraded

IsHealthyInverted(h, i) ==
    h[i] # StatusHealthy

\* func (s *TargetServer) IsHealthy() bool
IsHealthy(h, i) ==
    h[i] = StatusHealthy

SetStatusIgnored(h, i, status) ==
    h

\* func (s *TargetServer) SetStatus(status HealthStatus): s.Health = status
SetStatus(h, i, status) ==
    [h EXCEPT ![i] = status]

DegradeForgotten(h, i) ==
    h

\* func (s *TargetServer) Degrade()
Degrade(h, i) ==
    SetStatus(h, i, StatusDegraded)

getHealthStatusFromResponseLenient(state) ==
    IF state = "" THEN <<StatusDegraded, "ErrEmptyStatusInHealthResponse">>
    ELSE IF state = "degraded" THEN <<StatusDegraded, "nil">>
    ELSE <<StatusHealthy, "nil">>

\* getHealthStatusFromResponse: the State string to <<status, error>>.
getHealthStatusFromResponse(state) ==
    IF state = "" THEN <<StatusDegraded, "ErrEmptyStatusInHealthResponse">>
    ELSE IF state = "healthy" THEN <<StatusHealthy, "nil">>
    ELSE IF state = "degraded" THEN <<StatusDegraded, "nil">>
    ELSE <<StatusDegraded, "ErrInvalidStatusInHealthResponse">>

\* GetNewHealthStatus: the probe's result to <<status, error>>.
GetNewHealthStatus(result) ==
    IF result = "neterr" THEN <<StatusDegraded, "neterr">>
    ELSE IF result = "badjson" THEN <<StatusDegraded, "badjson">>
    ELSE getHealthStatusFromResponse(result)

(***************************************************************************)
(* ServerPool.                                                             *)
(***************************************************************************)
IncrementCurrentIndexSkipping(ci) ==
    (ci + 2) % NumServers

IncrementCurrentIndexUnwrapped(ci) ==
    ci + 1

\* func (pool *ServerPool) IncrementCurrentIndex(), the body under the lock.
IncrementCurrentIndex(ci) ==
    IF ci + 1 >= NumServers THEN 0 ELSE ci + 1

LookedAtAllButOne(c) ==
    c >= NumServers - 1

\* RoundRobin's test that it has looked at all the servers: cnt >= len(pool.Servers)
LookedAtAll(c) ==
    c >= NumServers

AnyHealthy(h) ==
    \E i \in Servers : h[i] = StatusHealthy

AllDegraded(h) ==
    \A i \in Servers : h[i] = StatusDegraded

\* The RoundRobin calls in progress learn of every server that is Healthy in
\* the pool's new health state h.
Saw(h) ==
    [t \in Tasks |->
        sawHealthy[t] \/ (pc[t] \in {"rr_top", "rr_hit", "rr_hit_inc", "rr_miss_inc"}
                          /\ AnyHealthy(h))]

(***************************************************************************)
(* What is recorded of the requests of the goroutines in observed, for the *)
(* properties that count selections, round trips and Degrade() calls.      *)
(***************************************************************************)
\* The record stops growing at MaxObserved, so that it stays finite where the
\* retries do not.
MaxObserved ==
    NumServers + 2

Bump(n) ==
    IF n < MaxObserved THEN n + 1 ELSE n

\* listenerHandler is called for a new request: its first selection.
ObserveRequest(t) ==
    /\ IF t \in observed
         THEN /\ tried' = [tried EXCEPT ![t] = <<>>]
              /\ nSel' = [nSel EXCEPT ![t] = 1]
              /\ nDeg' = [nDeg EXCEPT ![t] = 0]
         ELSE UNCHANGED <<tried, nSel, nDeg>>
    /\ retried' = [retried EXCEPT ![t] = NoIndex]

\* A round trip to pool.Servers[i] that gave r.
ObserveRoundTrip(t, i, r) ==
    IF t \in observed
      THEN /\ tried' = [tried EXCEPT ![t] =
                          IF Len(@) < MaxObserved THEN Append(@, <<i, r>>) ELSE @]
           /\ UNCHANGED <<nSel, nDeg, retried>>
      ELSE UNCHANGED obsVars

\* target.Degrade() and the selection of the nested listenerHandler.
ObserveRetry(t) ==
    /\ IF t \in observed
         THEN /\ nDeg' = [nDeg EXCEPT ![t] = Bump(@)]
              /\ nSel' = [nSel EXCEPT ![t] = Bump(@)]
              /\ UNCHANGED tried
         ELSE UNCHANGED <<tried, nSel, nDeg>>
    /\ retried' = IF 0 \in observed
                     THEN [retried EXCEPT ![t] = index[t]]
                     ELSE retried

(***************************************************************************)
(* RoundRobin, one step per access to the pool's shared state.             *)
(*   rr_top       the loop's head, up to the IsHealthy test of line 116    *)
(*   rr_hit       the test passed; index = pool.CurrentIndex is next       *)
(*   rr_hit_inc   pool.IncrementCurrentIndex() and return index are next   *)
(*   rr_miss_inc  pool.IncrementCurrentIndex() and cnt++ are next          *)
(*   rr_ret       RoundRobin has returned index[t] (NoIndex with an error) *)
(* pool.CurrentIndex is read at lines 116 and 117 without the lock that    *)
(* IncrementCurrentIndex takes: each read is a step of its own and sees    *)
(* the value of that moment.  A build that keeps the value read at line    *)
(* 116 for line 117 behaves as the run in which no step comes in between.  *)
(***************************************************************************)
\* A call of RoundRobin(pool) begins: var cnt, index int.
EnterRoundRobin(t) ==
    /\ pc' = [pc EXCEPT ![t] = "rr_top"]
    /\ cnt' = [cnt EXCEPT ![t] = 0]
    /\ index' = [index EXCEPT ![t] = 0]

RoundRobinTop(t) ==
    /\ pc[t] = "rr_top"
    /\ IF LookedAtAll(cnt[t])
         THEN \* break; return -1, ErrNoHealthyServer
              /\ pc' = [pc EXCEPT ![t] = "rr_ret"]
              /\ index' = [index EXCEPT ![t] = NoIndex]
              /\ cnt' = [cnt EXCEPT ![t] = 0]
         ELSE IF IsHealthy(Health, CurrentIndex)
                THEN /\ pc' = [pc EXCEPT ![t] = "rr_hit"]
                     /\ cnt' = [cnt EXCEPT ![t] = 0]   \* cnt is not read again
                     /\ UNCHANGED index
                ELSE /\ pc' = [pc EXCEPT ![t] = "rr_miss_inc"]
                     /\ UNCHANGED <<cnt, index>>
    /\ UNCHANGED <<poolVars, resp, client, why, monitorVars, sawHealthy, callVars, obsVars>>

\* index = pool.CurrentIndex
RoundRobinHit(t) ==
    /\ pc[t] = "rr_hit"
    /\ index' = [index EXCEPT ![t] = CurrentIndex]
    /\ pc' = [pc EXCEPT ![t] = "rr_hit_inc"]
    /\ UNCHANGED <<poolVars, cnt, resp, client, why, monitorVars, sawHealthy, callVars, obsVars>>

\* pool.IncrementCurrentIndex(); return index, nil
RoundRobinHitInc(t) ==
    /\ pc[t] = "rr_hit_inc"
    /\ CurrentIndex' = IncrementCurrentIndex(CurrentIndex)
    /\ pc' = [pc EXCEPT ![t] = "rr_ret"]
    /\ UNCHANGED <<Health, PauseHealthCheck, cnt, index, resp, client, why,
                   monitorVars, sawHealthy, callVars, obsVars>>

RoundRobinMissIncUncounted(t) ==
    /\ pc[t] = "rr_miss_inc"
    /\ CurrentIndex' = IncrementCurrentIndex(CurrentIndex)
    /\ pc' = [pc EXCEPT ![t] = "rr_top"]
    /\ UNCHANGED <<Health, PauseHealthCheck, cnt, index, resp, client, why,
                   monitorVars, sawHealthy, callVars, obsVars>>

\* pool.IncrementCurrentIndex(); cnt++
RoundRobinMissInc(t) ==
    /\ pc[t] = "rr_miss_inc"
    /\ CurrentIndex' = IncrementCurrentIndex(CurrentIndex)
    /\ cnt' = [cnt EXCEPT ![t] = cnt[t] + 1]
    /\ pc' = [pc EXCEPT ![t] = "rr_top"]
    /\ UNCHANGED <<Health, PauseHealthCheck, index, resp, client, why,
                   monitorVars, sawHealthy, callVars, obsVars>>

RoundRobin(t) ==
    \/ RoundRobinTop(t)
    \/ RoundRobinHit(t)
    \/ RoundRobinHitInc(t)
    \/ RoundRobinMissInc(t)

(***************************************************************************)
(* A goroutine that calls RoundRobin(pool) itself, as TestRoundRobin does. *)
(***************************************************************************)
CallsBy(t) ==
    Cardinality({k \in 1 .. Len(returns) : returns[k][1] = t})

\* rrIdx, err := RoundRobin(pool), at most limit times.
CallRoundRobin(t, limit) ==
    /\ pc[t] = "idle"
    /\ CallsBy(t) < limit
    /\ EnterRoundRobin(t)
    /\ sawHealthy' = [sawHealthy EXCEPT ![t] = AnyHealthy(Health)]
    /\ UNCHANGED <<poolVars, resp, client, why, monitorVars, callVars, obsVars>>

ReturnRoundRobin(t) ==
    /\ pc[t] = "rr_ret"
    /\ returns' = Append(returns, <<t, index[t]>>)
    /\ pc' = [pc EXCEPT ![t] = "idle"]
    /\ index' = [index EXCEPT ![t] = 0]
    /\ sawHealthy' = [sawHealthy EXCEPT ![t] = FALSE]
    /\ UNCHANGED <<poolVars, cnt, resp, client, why, monitorVars, startIndex, observed,
                   refreshed, everHealthy, auxVars, obsVars>>

(***************************************************************************)
(* listenerHandler and proxyRequestToTarget.                               *)
(*   roundtrip   http.DefaultTransport.RoundTrip(req) is in progress       *)
(*   handle      RoundTrip has returned; resp[t] is what it returned       *)
(*   done        the response to the client is written                     *)
(***************************************************************************)
RoundRobinFailedIgnored(i) ==
    FALSE

\* target, err := pool.GetTargetServer(RoundRobin); if err != nil
RoundRobinFailed(i) ==
    i = NoIndex

TransportFailedIgnored(r) ==
    FALSE

\* resp, err := http.DefaultTransport.RoundTrip(req); if err != nil
TransportFailed(r) ==
    r = NoResponse

ShouldRetryOnAnyServerError(code) ==
    code >= StatusInternalServerError

ShouldRetryOnClientError(code) ==
    code >= 400

ShouldRetryNever(code) ==
    FALSE

\* if resp.StatusCode == http.StatusInternalServerError
ShouldRetry(code) ==
    code = StatusInternalServerError

\* The listener hands a request to listenerHandler, which calls
\* pool.GetTargetServer(RoundRobin).
StartRequest(t) ==
    /\ pc[t] \in {"idle", "done"}
    /\ EnterRoundRobin(t)
    /\ client' = [client EXCEPT ![t] = NoResponse]
    /\ why' = [why EXCEPT ![t] = "none"]
    /\ sawHealthy' = [sawHealthy EXCEPT ![t] = AnyHealthy(Health)]
    /\ ObserveRequest(t)
    /\ UNCHANGED <<poolVars, resp, monitorVars, callVars>>

\* GetTargetServer's return and listenerHandler's test of err.
AfterSelect(t) ==
    /\ pc[t] = "rr_ret"
    /\ IF RoundRobinFailed(index[t])
         THEN \* http.Error(w, err.Error(), http.StatusServiceUnavailable)
              /\ client' = [client EXCEPT ![t] = StatusServiceUnavailable]
              /\ why' = [why EXCEPT ![t] = "nohealthy"]
              /\ pc' = [pc EXCEPT ![t] = "done"]
              /\ index' = [index EXCEPT ![t] = 0]
         ELSE \* target = pool.Servers[index]; proxyRequestToTarget(w, req, target)
              /\ pc' = [pc EXCEPT ![t] = "roundtrip"]
              /\ UNCHANGED <<client, why, index>>
    /\ sawHealthy' = [sawHealthy EXCEPT ![t] = FALSE]
    /\ retried' = [retried EXCEPT ![t] = NoIndex]
    /\ UNCHANGED <<poolVars, cnt, resp, monitorVars, callVars, tried, nSel, nDeg>>

\* resp, err := http.DefaultTransport.RoundTrip(req): the target gives one of
\* results.
RoundTripFrom(t, results) ==
    /\ pc[t] = "roundtrip"
    /\ \E r \in results :
          /\ resp' = [resp EXCEPT ![t] = r]
          /\ ObserveRoundTrip(t, index[t], r)
    /\ pc' = [pc EXCEPT ![t] = "handle"]
    /\ UNCHANGED <<poolVars, cnt, index, client, why, monitorVars, sawHealthy, callVars>>

\* The round trip to a target of which nothing is known.
RoundTrip(t) ==
    RoundTripFrom(t, RoundTripResults)

\* proxyRequestToTarget after the round trip.
HandleResponse(t) ==
    /\ pc[t] = "handle"
    /\ IF TransportFailed(resp[t])
         THEN \* err != nil: http.Error(w, err.Error(), 503)
              /\ client' = [client EXCEPT ![t] = StatusServiceUnavailable]
              /\ why' = [why EXCEPT ![t] = "transport"]
              /\ pc' = [pc EXCEPT ![t] = "done"]
              /\ index' = [index EXCEPT ![t] = 0]
              /\ UNCHANGED <<Health, cnt, sawHealthy, late, obsVars>>
         ELSE IF ShouldRetry(resp[t])
                THEN \* target.Degrade(); listenerHandler(w, req)
                     /\ Health' = Degrade(Health, index[t])
                     /\ late' = (late \/ (0 \in observed /\ hpc = "set" /\ hidx = index[t]))
                     /\ EnterRoundRobin(t)
                     /\ sawHealthy' = [Saw(Health') EXCEPT ![t] = AnyHealthy(Health')]
                     /\ ObserveRetry(t)
                     /\ UNCHANGED <<client, why>>
                ELSE \* copyHeader; w.WriteHeader(resp.StatusCode); io.Copy
                     /\ client' = [client EXCEPT ![t] = resp[t]]
                     /\ why' = [why EXCEPT ![t] = "relay"]
                     /\ pc' = [pc EXCEPT ![t] = "done"]
                     /\ index' = [index EXCEPT ![t] = 0]
                     /\ UNCHANGED <<Health, cnt, sawHealthy, late, obsVars>>
    /\ resp' = [resp EXCEPT ![t] = NoResponse]
    /\ UNCHANGED <<CurrentIndex, PauseHealthCheck, hpc, hidx, hstatus, herr, probed,
                   probeErrs, resumed, callVars>>

listenerHandler(t) ==
    \/ StartRequest(t)
    \/ RoundRobin(t)
    \/ AfterSelect(t)
    \/ RoundTrip(t)
    \/ HandleResponse(t)

(***************************************************************************)
(* The health-check goroutine: RunHealthCheckProcess, RunHealthCheck and   *)
(* RefreshHealthStatus.                                                    *)
(*   sleep   time.Sleep(HealthCheckInterval), then the test of the flag    *)
(*   probe   s.GetNewHealthStatus() for server hidx is in progress         *)
(*   set     s.SetStatus(status) for server hidx is next                   *)
(***************************************************************************)
MonitorWakeExiting ==
    /\ hpc = "sleep"
    /\ IF ~PauseHealthCheck
         THEN /\ hpc' = "probe"
              /\ hidx' = 0
              /\ probed' = <<>>
              /\ probeErrs' = <<>>
              /\ resumed' = IF resumed = "resumed" THEN "probing" ELSE resumed
         ELSE /\ hpc' = "exited"
              /\ UNCHANGED <<hidx, probed, probeErrs, resumed>>
    /\ UNCHANGED <<poolVars, taskVars, hstatus, herr, late, sawHealthy, callVars, obsVars>>

\* for { if !pool.PauseHealthCheck { pool.RunHealthCheck() }; time.Sleep(..) }
\* RunHealthCheckProcess: one turn of its for loop, from the end of the sleep
\* to the start of a pass; with pool.PauseHealthCheck set the turn does nothing
\* and the loop goes on.
MonitorWake ==
    /\ hpc = "sleep"
    /\ IF ~PauseHealthCheck
         THEN /\ hpc' = "probe"
              /\ hidx' = 0
              /\ probed' = <<>>
              /\ probeErrs' = <<>>
              /\ resumed' = IF resumed = "resumed" THEN "probing" ELSE resumed
         ELSE UNCHANGED <<hpc, hidx, probed, probeErrs, resumed>>
    /\ UNCHANGED <<poolVars, taskVars, hstatus, herr, late, sawHealthy, callVars, obsVars>>

\* status, err := s.GetNewHealthStatus()
MonitorProbe ==
    /\ hpc = "probe"
    /\ \E r \in ProbeResults :
          /\ hstatus' = GetNewHealthStatus(r)[1]
          /\ herr' = GetNewHealthStatus(r)[2]
          /\ probeErrs' = IF 0 \in observed
                             THEN Append(probeErrs, GetNewHealthStatus(r)[2])
                             ELSE probeErrs
    /\ probed' = Append(probed, hidx)
    /\ hpc' = "set"
    /\ UNCHANGED <<poolVars, taskVars, hidx, late, resumed, sawHealthy, callVars, obsVars>>

RunHealthCheckAborting(i, err) ==
    IF err = "nil" /\ i + 1 < NumServers THEN <<"probe", i + 1>> ELSE <<"sleep", 0>>

\* RunHealthCheck after RefreshHealthStatus() has returned err for server i:
\* the error is logged, the range loop goes to the next server, and after the
\* last one RunHealthCheckProcess sleeps.
RunHealthCheck(i, err) ==
    IF i + 1 < NumServers THEN <<"probe", i + 1>> ELSE <<"sleep", 0>>

\* s.SetStatus(status); return err, and the range loop of RunHealthCheck.
MonitorSet ==
    /\ hpc = "set"
    /\ Health' = SetStatus(Health, hidx, hstatus)
    /\ sawHealthy' = Saw(Health')
    /\ hstatus' = StatusDegraded
    /\ herr' = "nil"
    /\ hpc' = RunHealthCheck(hidx, herr)[1]
    /\ hidx' = RunHealthCheck(hidx, herr)[2]
    /\ late' = FALSE
    /\ UNCHANGED <<probed, probeErrs, resumed>>
    /\ everHealthy' = (everHealthy \/ AnyHealthy(Health'))
    /\ UNCHANGED <<CurrentIndex, PauseHealthCheck, taskVars, recVars, obsVars>>

RunHealthCheckProcess ==
    \/ MonitorWake
    \/ MonitorProbe
    \/ MonitorSet

(***************************************************************************)
(* The operations the tests use to put the pool in a state.                *)
(***************************************************************************)
PauseHealthChecks ==
    /\ PauseHealthCheck' = TRUE
    /\ UNCHANGED <<Health, CurrentIndex, taskVars, monitorVars, sawHealthy, callVars, obsVars>>

ResumeHealthChecks ==
    /\ PauseHealthCheck' = FALSE
    /\ resumed' = IF 0 \in observed /\ PauseHealthCheck /\ resumed = "none"
                     THEN "resumed"
                     ELSE resumed
    /\ UNCHANGED <<Health, CurrentIndex, taskVars, hpc, hidx, hstatus, herr, probed,
                   probeErrs, late, sawHealthy, callVars, obsVars>>

DegradeAllResetting ==
    /\ Health' = [i \in Servers |-> Degrade(Health, i)[i]]
    /\ CurrentIndex' = 0
    /\ UNCHANGED <<PauseHealthCheck, taskVars, monitorVars, sawHealthy, callVars, obsVars>>

\* func (pool *ServerPool) DegradeAll(): s.Degrade() for every server.
DegradeAll ==
    /\ Health' = [i \in Servers |-> Degrade(Health, i)[i]]
    /\ UNCHANGED <<CurrentIndex, PauseHealthCheck, taskVars, monitorVars,
                   sawHealthy, callVars, obsVars>>

HealthyAll ==
    /\ Health' = [i \in Servers |-> SetStatus(Health, i, StatusHealthy)[i]]
    /\ sawHealthy' = Saw(Health')
    /\ everHealthy' = TRUE
    /\ UNCHANGED <<CurrentIndex, PauseHealthCheck, taskVars, monitorVars, recVars, obsVars>>

\* func (s *TargetServer) RefreshHealthStatus() error, called for
\* pool.Servers[i] by a goroutine of its own (as RunHealthCheck does for
\* Normalize): status, err := s.GetNewHealthStatus(); s.SetStatus(status);
\* return err.  The call is recorded: the server, what the probe gave, the
\* server's status before the call and the error returned.
RefreshHealthStatus(i) ==
    \E r \in ProbeResults :
        LET new == GetNewHealthStatus(r)
        IN  /\ Health' = SetStatus(Health, i, new[1])
            /\ refreshed' = <<[server |-> i, probe |-> r,
                               before |-> Health[i], err |-> new[2]]>>
            /\ sawHealthy' = Saw(Health')
            /\ everHealthy' = (everHealthy \/ AnyHealthy(Health'))
            /\ UNCHANGED <<CurrentIndex, PauseHealthCheck, taskVars, monitorVars,
                           returns, startIndex, observed, auxVars, obsVars>>

\* The statuses after RunHealthCheck's range loop has called
\* RefreshHealthStatus() for the servers from i on, server k's probe giving
\* results[k].
RECURSIVE RunHealthCheckFrom(_, _, _)
RunHealthCheckFrom(h, i, results) ==
    IF i >= NumServers
      THEN h
      ELSE RunHealthCheckFrom(SetStatus(h, i, GetNewHealthStatus(results[i])[1]),
                              i + 1, results)

DirectPassGated(op, pausedAfter) ==
    \E results \in [Servers -> ProbeResults] :
        /\ Health' = IF PauseHealthCheck
                        THEN Health
                        ELSE RunHealthCheckFrom(Health, 0, results)
        /\ refreshed' = [k \in 1 .. NumServers |->
                            [server |-> k - 1, probe |-> results[k - 1],
                             before |-> Health[k - 1],
                             err |-> GetNewHealthStatus(results[k - 1])[2],
                             op |-> op, paused |-> PauseHealthCheck,
                             pausedAfter |-> pausedAfter]]

\* A pass of RunHealthCheck() that a caller makes itself, for op (RunHealthCheck
\* or Normalize): the servers are probed and set one after the other, and the
\* pass is recorded with pool.PauseHealthCheck before and after op.
DirectPass(op, pausedAfter) ==
    \E results \in [Servers -> ProbeResults] :
        /\ Health' = RunHealthCheckFrom(Health, 0, results)
        /\ refreshed' = [k \in 1 .. NumServers |->
                            [server |-> k - 1, probe |-> results[k - 1],
                             before |-> Health[k - 1],
                             err |-> GetNewHealthStatus(results[k - 1])[2],
                             op |-> op, paused |-> PauseHealthCheck,
                             pausedAfter |-> pausedAfter]]

\* pool.RunHealthCheck(), called by a goroutine of its own.
CallRunHealthCheck ==
    /\ DirectPass("RunHealthCheck", PauseHealthCheck)
    /\ sawHealthy' = Saw(Health')
    /\ everHealthy' = (everHealthy \/ AnyHealthy(Health'))
    /\ UNCHANGED <<CurrentIndex, PauseHealthCheck, taskVars, monitorVars,
                   returns, startIndex, observed, auxVars, obsVars>>

\* func (pool *ServerPool) Normalize(): pool.RunHealthCheck();
\* pool.ResumeHealthChecks()
Normalize ==
    /\ DirectPass("Normalize", FALSE)
    /\ PauseHealthCheck' = FALSE
    /\ resumed' = IF 0 \in observed /\ PauseHealthCheck /\ resumed = "none"
                     THEN "resumed"
                     ELSE resumed
    /\ sawHealthy' = Saw(Health')
    /\ everHealthy' = (everHealthy \/ AnyHealthy(Health'))
    /\ UNCHANGED <<CurrentIndex, taskVars, hpc, hidx, hstatus, herr, probed, probeErrs,
                   late, returns, startIndex, observed, auxVars, obsVars>>

(***************************************************************************)
(* NewTargetServer and NewServerPool as functions of the addresses.        *)
(***************************************************************************)
\* The addresses of the lists: the empty string, a string of white space, a
\* string url.Parse returns an error for, and two addresses that parse.
Addresses ==
    {"", " ", "%zz", "http://a", "http://b"}

AddressLists ==
    UNION {[1 .. n -> Addresses] : n \in 0 .. MaxAddrs}

\* strings.TrimSpace(address) == ""
IsBlank(address) ==
    address \in {"", " "}

\* url.Parse(address) returns an error
Unparsable(address) ==
    address = "%zz"

NewTargetServerErrUntrimmed(address) ==
    IF address = "" THEN "ErrEmptyAddress"
    ELSE IF Unparsable(address) THEN "Failed to parse to URL"
    ELSE "nil"

\* The error NewTargetServer(address) returns ("nil": none, a server is returned).
NewTargetServerErr(address) ==
    IF IsBlank(address) THEN "ErrEmptyAddress"
    ELSE IF Unparsable(address) THEN "Failed to parse to URL"
    ELSE "nil"

\* NewServerPool's return of (nil, err): no pool, and the go statement that
\* starts the health checks is not reached.
NoPool(err) ==
    [err |-> err, ok |-> FALSE, servers |-> <<>>, monitors |-> 0]

SeenNever(seen, a) ==
    FALSE

\* if seen[s]
Seen(seen, a) ==
    a \in seen

\* NewServerPool's loop over addrs from index i on, with the addresses seen
\* before, then go (&pool).RunHealthCheckProcess(..) and return &pool, nil.
RECURSIVE NewServerPoolFrom(_, _, _)
NewServerPoolFrom(addrs, i, seen) ==
    IF i > Len(addrs)
      THEN [err |-> "nil", ok |-> TRUE, servers |-> addrs, monitors |-> 1]
    ELSE IF Seen(seen, addrs[i])
      THEN NoPool("ErrDuplicateServerAddress")
    ELSE IF NewTargetServerErr(addrs[i]) # "nil"
      THEN NoPool(NewTargetServerErr(addrs[i]))
    ELSE NewServerPoolFrom(addrs, i + 1, seen \cup {addrs[i]})

NewServerPoolUnchecked(addrs) ==
    NewServerPoolFrom(addrs, 1, {})

\* func NewServerPool(addrs ServerAddresses) (*ServerPool, error)
NewServerPool(addrs) ==
    IF Len(addrs) < 1
      THEN NoPool("ErrNoServerAddressForPool")
      ELSE NewServerPoolFrom(addrs, 1, {})

\* A call of NewServerPool with one of the address lists.
CallNewServerPool ==
    /\ \E addrs \in AddressLists :
          constructed' = <<[addrs |-> addrs, result |-> NewServerPool(addrs)]>>
    /\ UNCHANGED <<poolVars, taskVars, monitorVars, sawHealthy, returns, startIndex,
                   observed, refreshed, everHealthy, deleted, joined, setting,
                   nEvents, nChanges, obsVars>>

(***************************************************************************)
(* singleJoiningSlash, on paths as sequences of characters: the slash and  *)
(* "x" for every other character.                                          *)
(***************************************************************************)
Chars ==
    {"/", "x"}

Paths ==
    UNION {[1 .. n -> Chars] : n \in 0 .. MaxPathLen}

\* strings.HasSuffix(a, "/")
HasSuffixSlash(a) ==
    Len(a) > 0 /\ a[Len(a)] = "/"

\* strings.HasPrefix(b, "/")
HasPrefixSlash(b) ==
    Len(b) > 0 /\ b[1] = "/"

singleJoiningSlashPlain(a, b) ==
    a \o b

\* func singleJoiningSlash(a, b string) string
singleJoiningSlash(a, b) ==
    IF HasSuffixSlash(a) /\ HasPrefixSlash(b) THEN a \o Tail(b)
    ELSE IF ~HasSuffixSlash(a) /\ ~HasPrefixSlash(b) THEN a \o <<"/">> \o b
    ELSE a \o b

\* redirectRequestToServer for a target with path prefix a and a request with
\* path b: req.URL.Path = singleJoiningSlash(target.Path, req.URL.Path)
\* The query strings of a target's URL and of a request: none, or one parameter.
Queries ==
    {<<>>, <<"q">>}

\* redirectRequestToServer's req.URL.RawQuery from targetQuery and req.URL.RawQuery.
JoinQuery(targetQuery, rawQuery) ==
    IF targetQuery = <<>> \/ rawQuery = <<>>
      THEN targetQuery \o rawQuery
      ELSE targetQuery \o <<"&">> \o rawQuery

\* redirectRequestToServer(req, target) for a request as the client sent it
\* (path b, query rq) and a target with path prefix a and query tq.  The call
\* is recorded: req.URL.Path and req.URL.RawQuery before (path, query) and
\* after (result, rawQuery), what the client sent (orig, origQuery), and which
\* attempt of the request it is.
redirectRequestToServer ==
    /\ \E a, b \in Paths, tq, rq \in Queries :
          joined' = <<[prefix |-> a, path |-> b, result |-> singleJoiningSlash(a, b),
                       tquery |-> tq, query |-> rq, rawQuery |-> JoinQuery(tq, rq),
                       orig |-> b, origQuery |-> rq, attempt |-> 1]>>
    /\ UNCHANGED <<poolVars, taskVars, monitorVars, sawHealthy, returns, startIndex,
                   observed, refreshed, everHealthy, deleted, constructed, setting,
                   nEvents, nChanges, obsVars>>

\* proxyRequestToTarget's retry: the target has answered 500, and
\* listenerHandler(w, req) is called with the request that
\* redirectRequestToServer has rewritten; the target it selects has path prefix
\* a and query tq, and redirectRequestToServer rewrites req for it.
RetryRequest ==
    /\ joined # <<>>
    /\ joined[1].attempt < MaxAttempts
    /\ \E a \in Paths, tq \in Queries :
          joined' = <<[prefix |-> a, path |-> joined[1].result,
                       result |-> singleJoiningSlash(a, joined[1].result),
                       tquery |-> tq, query |-> joined[1].rawQuery,
                       rawQuery |-> JoinQuery(tq, joined[1].rawQuery),
                       orig |-> joined[1].orig, origQuery |-> joined[1].origQuery,
                       attempt |-> joined[1].attempt + 1]>>
    /\ UNCHANGED <<poolVars, taskVars, monitorVars, sawHealthy, returns, startIndex,
                   observed, refreshed, everHealthy, deleted, constructed, setting,
                   nEvents, nChanges, obsVars>>

\* func (pool *ServerPool) Delete() { pool = nil }: the assignment is to the
\* method's own copy of the pointer; neither the pool nor the health-check
\* goroutine is touched.
Delete ==
    /\ deleted' = TRUE
    /\ UNCHANGED <<poolVars, taskVars, monitorVars, sawHealthy, returns, startIndex,
                   observed, refreshed, everHealthy, constructed, joined, setting,
                   nEvents, nChanges, obsVars>>

(***************************************************************************)
(* The pool after NewServerPool: every server Degraded (the zero value of  *)
(* HealthStatus), the index at 0, the health checks running.               *)
(***************************************************************************)
\* The goroutines that call SetStatus(): the health-check goroutine (0) and
\* the request goroutines.
Callers ==
    {0} \cup Tasks

(***************************************************************************)
(* SetStatus step by step.  It reads s.Health for its log event and then   *)
(* writes it, with no lock: a call is two steps, and calls of different    *)
(* goroutines for the same server interleave.                              *)
(***************************************************************************)
\* The two tests of SetStatus: is an event logged for setting a server whose
\* Health is now to status?
LogsEvent(now, status) ==
    \/ status = StatusDegraded /\ now = StatusHealthy
    \/ status = StatusHealthy /\ now = StatusDegraded

\* Goroutine g calls SetStatus(status) for pool.Servers[i]: the test of
\* s.Health and the clog call.
SetStatusTest(g, i, status) ==
    /\ setting[g] = <<>>
    /\ nEvents[StatusDegraded] + nEvents[StatusHealthy] < MaxEvents
    /\ nChanges[StatusDegraded] + nChanges[StatusHealthy] < MaxEvents
    /\ setting' = [setting EXCEPT ![g] = <<i, status>>]
    /\ nEvents' = IF LogsEvent(Health[i], status)
                    THEN [nEvents EXCEPT ![status] = @ + 1]
                    ELSE nEvents
    /\ UNCHANGED <<poolVars, taskVars, monitorVars, sawHealthy, returns, startIndex,
                   observed, refreshed, everHealthy, deleted, constructed, joined,
                   nChanges, obsVars>>

\* s.Health = status
SetStatusWrite(g) ==
    /\ setting[g] # <<>>
    /\ LET i == setting[g][1]
           status == setting[g][2]
       IN  /\ Health' = SetStatus(Health, i, status)
           /\ nChanges' = IF Health[i] # status
                             THEN [nChanges EXCEPT ![status] = @ + 1]
                             ELSE nChanges
    /\ setting' = [setting EXCEPT ![g] = <<>>]
    /\ sawHealthy' = Saw(Health')
    /\ everHealthy' = (everHealthy \/ AnyHealthy(Health'))
    /\ UNCHANGED <<CurrentIndex, PauseHealthCheck, taskVars, monitorVars, returns,
                   startIndex, observed, refreshed, deleted, constructed, joined,
                   nEvents, obsVars>>

\* None of the operations that are called on their own has been called.
AuxIdle ==
    /\ deleted = FALSE
    /\ constructed = <<>>
    /\ joined = <<>>
    /\ setting = [g \in Callers |-> <<>>]
    /\ nEvents = [st \in HealthStatus |-> 0]
    /\ nChanges = [st \in HealthStatus |-> 0]

TasksIdle ==
    /\ pc = [t \in Tasks |-> "idle"]
    /\ cnt = [t \in Tasks |-> 0]
    /\ index = [t \in Tasks |-> 0]
    /\ resp = [t \in Tasks |-> NoResponse]
    /\ client = [t \in Tasks |-> NoResponse]
    /\ why = [t \in Tasks |-> "none"]
    /\ sawHealthy = [t \in Tasks |-> FALSE]
    /\ returns = <<>>
    /\ tried = [t \in Tasks |-> <<>>]
    /\ nSel = [t \in Tasks |-> 0]
    /\ nDeg = [t \in Tasks |-> 0]
    /\ retried = [t \in Tasks |-> NoIndex]
    /\ refreshed = <<>>
    /\ AuxIdle

MonitorAsleep ==
    /\ hpc = "sleep"
    /\ hidx = 0
    /\ hstatus = StatusDegraded
    /\ herr = "nil"
    /\ probed = <<>>
    /\ probeErrs = <<>>
    /\ late = FALSE
    /\ resumed = "none"

Init ==
    /\ Health = [i \in Servers |-> NewTargetServer]
    /\ CurrentIndex = 0
    /\ PauseHealthCheck = FALSE
    /\ startIndex = 0
    /\ observed = {}
    /\ everHealthy = FALSE
    /\ TasksIdle
    /\ MonitorAsleep

\* Requests are dispatched while the health checks run and the tests' operations
\* are called.
Next ==
    \/ \E t \in Tasks : listenerHandler(t)
    \/ RunHealthCheckProcess
    \/ PauseHealthChecks
    \/ ResumeHealthChecks
    \/ DegradeAll
    \/ HealthyAll

Spec ==
    Init /\ [][Next]_vars

(***************************************************************************)
(* A pool in any state it can be in with the health checks paused (as      *)
(* after PauseHealthChecks() in the tests): no status is written but by    *)
(* the goroutines at work.                                                 *)
(***************************************************************************)
PausedPool ==
    /\ Health \in [Servers -> HealthStatus]
    /\ CurrentIndex \in Servers
    /\ PauseHealthCheck = TRUE
    /\ startIndex = CurrentIndex
    /\ observed = {1}
    /\ everHealthy = AnyHealthy(Health)
    /\ TasksIdle
    /\ MonitorAsleep

\* NumTasks goroutines call RoundRobin(pool) once each, at the same time.
SelNext ==
    \E t \in Tasks :
        \/ CallRoundRobin(t, 1)
        \/ RoundRobin(t)
        \/ ReturnRoundRobin(t)

SelSpec ==
    PausedPool /\ [][SelNext]_vars

\* One goroutine calls RoundRobin(pool) again and again, as TestRoundRobin does.
MaxCalls ==
    2 * NumServers

SeqNext ==
    \/ CallRoundRobin(1, MaxCalls)
    \/ RoundRobin(1)
    \/ ReturnRoundRobin(1)

SeqSpec ==
    PausedPool /\ [][SeqNext]_vars

\* NumTasks requests at a time are dispatched, and recorded.
PausedNext ==
    \E t \in Tasks : listenerHandler(t)

PausedSpec ==
    PausedPool /\ [][PausedNext]_vars

\* One request after the other is dispatched, and recorded.
SeqDispatchNext ==
    listenerHandler(1)

SeqDispatchSpec ==
    PausedPool /\ [][SeqDispatchNext]_vars

\* The load balancer in service, as main() runs it, with one client: a request
\* at a time is dispatched while the health checks run, and none of the tests'
\* operations is called.  The Go scheduler runs every goroutine that can run,
\* and a round trip ends (with a response or with an error); when a request
\* arrives is up to the client.
ServiceNext ==
    \/ listenerHandler(1)
    \/ RunHealthCheckProcess

Dispatching(t) ==
    \/ RoundRobin(t)
    \/ AfterSelect(t)
    \/ RoundTrip(t)
    \/ HandleResponse(t)

\* The load balancer in service until its pool is torn down with Delete(),
\* as the tests do at their end.
TeardownNext ==
    \/ ServiceNext
    \/ Delete

TeardownSpec ==
    Init /\ [][TeardownNext]_vars

\* NewServerPool is called with every address list.
ConstructNext ==
    CallNewServerPool

ConstructSpec ==
    Init /\ [][ConstructNext]_vars

\* Requests with every path are rewritten for targets with every path prefix.
RedirectNext ==
    redirectRequestToServer

RedirectSpec ==
    Init /\ [][RedirectNext]_vars

\* The same, and the targets answer 500: the requests are retried.
RetryRedirectNext ==
    \/ redirectRequestToServer
    \/ RetryRequest

RetryRedirectSpec ==
    Init /\ [][RetryRedirectNext]_vars

\* The health-check goroutine sets the status its probes give (RefreshHealthStatus)
\* and the request goroutines degrade the servers that answer 500 (Degrade),
\* at the same time and for the same servers.
RunningPool ==
    /\ Health \in [Servers -> HealthStatus]
    /\ CurrentIndex = 0
    /\ PauseHealthCheck = FALSE
    /\ startIndex = 0
    /\ observed = {}
    /\ everHealthy = AnyHealthy(Health)
    /\ TasksIdle
    /\ MonitorAsleep

StatusNext ==
    \/ \E i \in Servers, status \in HealthStatus : SetStatusTest(0, i, status)
    \/ \E t \in Tasks, i \in Servers : SetStatusTest(t, i, StatusDegraded)
    \/ \E g \in Callers : SetStatusWrite(g)

StatusSpec ==
    RunningPool /\ [][StatusNext]_vars

\* The same with the probes' errors recorded.
MonitoredPool ==
    /\ Health = [i \in Servers |-> NewTargetServer]
    /\ CurrentIndex = 0
    /\ PauseHealthCheck = FALSE
    /\ startIndex = 0
    /\ observed = {0}
    /\ everHealthy = FALSE
    /\ TasksIdle
    /\ MonitorAsleep

MonitoredSpec ==
    MonitoredPool /\ [][ServiceNext]_vars

\* Requests are dispatched while the health checks run, and only the
\* selection of request 1 is sure to be scheduled: a probe of the health
\* checks and the round trip of the other request can take for ever.  The
\* pool's mutex is held inside IncrementCurrentIndex only, which is one step
\* here, so no state has the mutex held while a goroutine waits for the network.
BlockingNext ==
    \/ \E t \in Tasks : listenerHandler(t)
    \/ RunHealthCheckProcess

BlockingSpec ==
    /\ Init
    /\ [][BlockingNext]_vars
    /\ WF_vars(RoundRobin(1))

\* The health checks run while callers pause and resume them at any time;
\* the loop of RunHealthCheckProcess is scheduled again and again, the callers
\* are not bound to do anything.
PauseResumeNext ==
    \/ RunHealthCheckProcess
    \/ PauseHealthChecks
    \/ ResumeHealthChecks

PauseResumeSpec ==
    /\ MonitoredPool
    /\ [][PauseResumeNext]_vars
    /\ WF_vars(RunHealthCheckProcess)

FairSpec ==
    /\ Init
    /\ [][ServiceNext]_vars
    /\ WF_vars(Dispatching(1))
    /\ WF_vars(RunHealthCheckProcess)

\* RefreshHealthStatus() is called for one server after the other, in any
\* order, while nothing else writes a status.
RefreshNext ==
    \E i \in Servers : RefreshHealthStatus(i)

RefreshSpec ==
    PausedPool /\ [][RefreshNext]_vars

\* A test puts the pool in a state with PauseHealthChecks(),
\* ResumeHealthChecks(), RunHealthCheck() and Normalize(), as
\* TestNoHealthyServer does at its end; the pool's servers are in any state
\* and the health checks are paused or not.
TestPool ==
    /\ Health \in [Servers -> HealthStatus]
    /\ CurrentIndex = 0
    /\ PauseHealthCheck \in BOOLEAN
    /\ startIndex = 0
    /\ observed = {}
    /\ everHealthy = AnyHealthy(Health)
    /\ TasksIdle
    /\ MonitorAsleep

NormalizeNext ==
    \/ PauseHealthChecks
    \/ ResumeHealthChecks
    \/ CallRunHealthCheck
    \/ Normalize

NormalizeSpec ==
    TestPool /\ [][NormalizeNext]_vars

\* The load balancer in front of the targets that TestConcurrent starts: a
\* target answers a forwarded request with 200 while it is healthy and with
\* 500 while it is degraded, and it changes state when it likes.  NumTasks
\* requests at a time are dispatched while the health checks run.
TargetAnswers ==
    {StatusOK, StatusInternalServerError}

MixedNext ==
    \/ \E t \in Tasks :
          \/ StartRequest(t)
          \/ RoundRobin(t)
          \/ AfterSelect(t)
          \/ RoundTripFrom(t, TargetAnswers)
          \/ HandleResponse(t)
    \/ RunHealthCheckProcess

MixedSpec ==
    Init /\ [][MixedNext]_vars

(***************************************************************************)
(* Properties.                                                             *)
(***************************************************************************)
\* The indices the direct RoundRobin calls have returned, in the order of return.
Returned(k) ==
    returns[k][2]

AllHealthy(h) ==
    \A i \in Servers : h[i] = StatusHealthy

HealthySet(h) ==
    {i \in Servers : h[i] = StatusHealthy}

\* The first Healthy server at or after index from, in cyclic order.
FirstHealthyFrom(h, from) ==
    LET d == CHOOSE d \in 0 .. (NumServers - 1) :
                 /\ h[(from + d) % NumServers] = StatusHealthy
                 /\ \A e \in 0 .. (d - 1) : h[(from + e) % NumServers] # StatusHealthy
    IN  (from + d) % NumServers

\* C1: while server k stays Degraded no call of RoundRobin returns k, also when
\* several goroutines call it at the same time.  (Under SelSpec no status is
\* written, so a server that is Degraded stays Degraded.)
C1_NeverReturnsDegraded ==
    \A t \in Tasks :
        (pc[t] = "rr_ret" /\ index[t] # NoIndex) => Health[index[t]] # StatusDegraded

\* C2: on a pool whose servers are all Healthy, with the index at 0, the calls
\* of RoundRobin made one after the other return 0, 1, ..., N-1 and then 0 again.
C2_AllHealthyInOrder ==
    (AllHealthy(Health) /\ startIndex = 0) =>
        \A k \in 1 .. Len(returns) : Returned(k) = (k - 1) % NumServers

C2_Witness ==
    /\ AllHealthy(Health)
    /\ startIndex = 0
    /\ Len(returns) = NumServers + 1
    /\ Returned(NumServers) = NumServers - 1
    /\ Returned(NumServers + 1) = 0

\* C3: on a pool whose servers all stay Healthy, M <= N calls of RoundRobin made
\* at the same time return M different indices, the ones M calls made one after
\* the other return.
C3_ConcurrentDistinct ==
    AllHealthy(Health) =>
        /\ \A j, k \in 1 .. Len(returns) : j # k => Returned(j) # Returned(k)
        /\ Len(returns) = NumTasks =>
              {Returned(k) : k \in 1 .. Len(returns)}
                  = {(startIndex + m) % NumServers : m \in 0 .. (NumTasks - 1)}

\* C4: with a fixed health assignment that has h >= 1 Healthy servers, the calls
\* made one after the other return the Healthy indices in increasing cyclic
\* order: each call returns the first Healthy server after the one returned
\* before, and h calls in a row return every Healthy server once.
C4_HealthyInCyclicOrder ==
    AnyHealthy(Health) =>
        /\ \A k \in 1 .. Len(returns) :
              Returned(k) = FirstHealthyFrom(Health,
                                IF k = 1 THEN startIndex
                                         ELSE (Returned(k - 1) + 1) % NumServers)
        /\ LET h == Cardinality(HealthySet(Health))
           IN  \A k \in 1 .. Len(returns) :
                   k + h - 1 <= Len(returns) =>
                       {Returned(j) : j \in k .. (k + h - 1)} = HealthySet(Health)

C4_Witness ==
    /\ Cardinality(HealthySet(Health)) = NumServers - 1
    /\ Len(returns) = MaxCalls
    /\ Returned(1) # Returned(2)
    /\ Returned(1) = Returned(NumServers)

\* C5: a call of RoundRobin during which all servers are Degraded fails with
\* ErrNoHealthyServer (index -1); the calls fail until a server is set Healthy.
C5_AllDegradedFails ==
    \A t \in Tasks :
        (pc[t] = "rr_ret" /\ ~sawHealthy[t]) => index[t] = NoIndex

C5_Witness ==
    \E t \in Tasks :
        /\ pc[t] = "rr_ret"
        /\ ~sawHealthy[t]
        /\ index[t] = NoIndex
        /\ AllDegraded(Health)

\* C6: a call of RoundRobin fails with ErrNoHealthyServer only when no server
\* was Healthy: with a server Healthy during the whole call it returns a
\* server, also when other calls run at the same time.  (Under SelSpec no
\* status is written, so a Healthy server is Healthy during every call.)
C6_FailsOnlyWithoutHealthy ==
    AnyHealthy(Health) =>
        \A t \in Tasks : pc[t] = "rr_ret" => index[t] # NoIndex
\* The last round trip recorded of request t.
LastTried(t) ==
    tried[t][Len(tried[t])]

C8_OneDegradeOneRetry ==
    /\ ( /\ pc[1] = "done"
         /\ Len(tried[1]) >= 2
         /\ tried[1][1][2] = StatusInternalServerError
         /\ tried[1][2][2] = StatusOK )
       => /\ nDeg[1] = 1
          /\ nSel[1] = 2
          /\ Len(tried[1]) = 2
          /\ client[1] = StatusOK
          /\ Health[tried[1][1][1]] = StatusDegraded
          /\ tried[1][2][1] # tried[1][1][1]
    /\ (pc[1] \in {"rr_ret", "roundtrip"} /\ index[1] # NoIndex)
          => Health[index[1]] = StatusHealthy

C8_Witness ==
    /\ pc[1] = "done"
    /\ Len(tried[1]) = 2
    /\ tried[1][1][2] = StatusInternalServerError
    /\ tried[1][2][2] = StatusOK
    /\ client[1] = StatusOK
    /\ nDeg[1] = 1

C10_EveryRequestResponds ==
    \A t \in Tasks : (pc[t] \notin {"idle", "done"}) ~> (pc[t] = "done")

\* C11: when the selection fails (RoundRobin returns ErrNoHealthyServer), the
\* dispatcher answers 503 with the error's message, makes no round trip to a
\* server and does not run the selection again.
C11_SelectFailureGives503 ==
    [][\A t \in Tasks :
          (pc[t] = "rr_ret" /\ index[t] = NoIndex /\ pc'[t] # "rr_ret")
              => /\ pc'[t] = "done"
                 /\ client'[t] = StatusServiceUnavailable
                 /\ why'[t] = "nohealthy"
                 /\ tried'[t] = tried[t]
                 /\ nSel'[t] = nSel[t]
                 /\ nDeg'[t] = nDeg[t]]_vars

C11_Witness ==
    /\ pc[1] = "done"
    /\ why[1] = "nohealthy"
    /\ client[1] = StatusServiceUnavailable
    /\ nSel[1] = 1
    /\ tried[1] = <<>>

\* C12: when the round trip to the selected server fails at transport level,
\* the dispatcher answers 503 with the error's message and makes no further
\* selection, round trip or Degrade() for that request.
C12_TransportFailureGives503 ==
    [][\A t \in Tasks :
          (pc[t] = "handle" /\ resp[t] = NoResponse /\ pc'[t] # "handle")
              => /\ pc'[t] = "done"
                 /\ client'[t] = StatusServiceUnavailable
                 /\ why'[t] = "transport"
                 /\ tried'[t] = tried[t]
                 /\ nSel'[t] = nSel[t]
                 /\ Health' = Health]_vars

C12_Witness ==
    /\ pc[1] = "done"
    /\ why[1] = "transport"
    /\ client[1] = StatusServiceUnavailable
    /\ Len(tried[1]) = 2
    /\ tried[1][1][2] = StatusInternalServerError
    /\ tried[1][2][2] = NoResponse
    /\ nSel[1] = 2

\* C13: for every response of a server whose status is no server error (below
\* 500), the client gets the status code the server returned, written by the
\* statements that copy the headers and the body, and nothing is retried: no
\* Degrade(), no further selection.
C13_RelaysStatus ==
    [][\A t \in Tasks :
          (pc[t] = "handle" /\ resp[t] # NoResponse
               /\ resp[t] < StatusInternalServerError /\ pc'[t] # "handle")
              => /\ pc'[t] = "done"
                 /\ client'[t] = resp[t]
                 /\ why'[t] = "relay"
                 /\ tried'[t] = tried[t]
                 /\ nSel'[t] = nSel[t]
                 /\ Health' = Health]_vars

C13_Witness ==
    /\ pc[1] = "done"
    /\ why[1] = "relay"
    /\ client[1] = 404
    /\ Len(tried[1]) = 1
    /\ LastTried(1)[2] = 404
    /\ nSel[1] = 1
    /\ nDeg[1] = 0

\* C14: when requests are dispatched at the same time against a pool with
\* Healthy and Degraded servers whose targets answer 200 or 500, every client
\* gets 200 or 503 and nothing else, and no goroutine indexes pool.Servers out
\* of range (pool.Servers[pool.CurrentIndex] in RoundRobin, pool.Servers[index]
\* in GetTargetServer).
C14_Only200Or503 ==
    /\ CurrentIndex \in Servers
    /\ \A t \in Tasks :
          /\ client[t] \in {NoResponse, StatusOK, StatusServiceUnavailable}
          /\ pc[t] = "done" => client[t] \in {StatusOK, StatusServiceUnavailable}
          /\ pc[t] = "rr_ret" => index[t] \in Servers \cup {NoIndex}
          /\ pc[t] \in {"rr_hit_inc", "roundtrip", "handle"} => index[t] \in Servers

C14_Witness ==
    /\ pc[1] = "done"
    /\ client[1] = StatusOK
    /\ pc[2] = "done"
    /\ client[2] = StatusServiceUnavailable
    /\ AnyHealthy(Health)
    /\ ~AllHealthy(Health)

\* C15: in every reachable state, under every interleaving of selections,
\* dispatches, health checks and the tests' operations, pool.CurrentIndex is
\* an index of pool.Servers: 0 <= CurrentIndex < N.
C15_CurrentIndexInRange ==
    /\ 0 <= CurrentIndex
    /\ CurrentIndex < NumServers

\* The index has wrapped: a selection returned the last server.
C15_Witness ==
    /\ CurrentIndex = 0
    /\ \E t \in Tasks : pc[t] = "roundtrip" /\ index[t] = NumServers - 1

\* C16: after a call of RoundRobin, made with no other call at the same time,
\* that returns index i, pool.CurrentIndex is (i+1) mod N.  In the pool whose
\* server 1 is Degraded and whose other servers are Healthy, with the index at
\* 0, the first three calls return 0, 2 and 3 mod N (A, C, A for N = 3) and
\* leave the index just past the last one returned (at 1, B's index, for N = 3).
C16_IndexPastReturned ==
    /\ (pc[1] = "rr_ret" /\ index[1] # NoIndex)
          => CurrentIndex = (index[1] + 1) % NumServers
    /\ (pc[1] = "idle" /\ Len(returns) > 0 /\ Returned(Len(returns)) # NoIndex)
          => CurrentIndex = (Returned(Len(returns)) + 1) % NumServers
    /\ ( /\ Health = [i \in Servers |-> IF i = 1 THEN StatusDegraded ELSE StatusHealthy]
         /\ startIndex = 0
         /\ Len(returns) >= 3 )
       => /\ Returned(1) = 0
          /\ Returned(2) = 2
          /\ Returned(3) = 3 % NumServers
          /\ (Len(returns) = 3 /\ pc[1] = "idle")
                => CurrentIndex = ((3 % NumServers) + 1) % NumServers

C16_Witness ==
    /\ Health = [i \in Servers |-> IF i = 1 THEN StatusDegraded ELSE StatusHealthy]
    /\ startIndex = 0
    /\ Len(returns) = 3
    /\ pc[1] = "idle"
    /\ Returned(2) = 2
    /\ Returned(3) = 3 % NumServers
    /\ CurrentIndex = (Returned(3) + 1) % NumServers

\* The probes that end in an error: a network error, a body that is no JSON,
\* an empty State and a State that is neither "healthy" nor "degraded".
FailedProbes ==
    {"neterr", "badjson", "", "bogus"}

\* C17: a RefreshHealthStatus() whose probe ends in a network error, a JSON
\* parse error, an empty state or an unrecognized state leaves the server
\* Degraded, whatever its status was before, and returns the error (not nil)
\* to its caller.
C17_FailedProbeDegrades ==
    \A k \in 1 .. Len(refreshed) :
        refreshed[k].probe \in FailedProbes
            => /\ Health[refreshed[k].server] = StatusDegraded
               /\ refreshed[k].err # "nil"

C17_Witness ==
    /\ Len(refreshed) = 1
    /\ refreshed[1].probe = "bogus"
    /\ refreshed[1].before = StatusHealthy
    /\ Health[refreshed[1].server] = StatusDegraded
    /\ refreshed[1].err = "ErrInvalidStatusInHealthResponse"

\* C18: after a RefreshHealthStatus() whose probe succeeds, IsHealthy() is true
\* exactly when the reported state is "healthy" and false when it is
\* "degraded", whatever the status was before: a server made Healthy by a
\* "healthy" probe is moved from true to false by a "degraded" probe.
C18_ProbeSetsStatus ==
    \A k \in 1 .. Len(refreshed) :
        refreshed[k].probe \in {"healthy", "degraded"}
            => /\ IsHealthy(Health, refreshed[k].server) <=> refreshed[k].probe = "healthy"
               /\ refreshed[k].err = "nil"

C18_Witness ==
    /\ Len(refreshed) = 1
    /\ refreshed[1].probe = "degraded"
    /\ refreshed[1].before = StatusHealthy
    /\ ~IsHealthy(Health, refreshed[1].server)

\* C19: a newly constructed server is Degraded and is not selected: on the
\* pool NewServerPool returns, every call of RoundRobin fails with
\* ErrNoHealthyServer until a probe of the health checks, or a SetStatus()
\* call, marks a server Healthy.
C19_FreshPoolNotSelectable ==
    ~everHealthy =>
        /\ AllDegraded(Health)
        /\ \A t \in Tasks :
              /\ pc[t] = "rr_ret" => index[t] = NoIndex
              /\ pc[t] \notin {"rr_hit", "rr_hit_inc", "roundtrip", "handle"}
              /\ pc[t] = "done" => client[t] = StatusServiceUnavailable

C19_Witness ==
    /\ ~everHealthy
    /\ pc[1] = "done"
    /\ client[1] = StatusServiceUnavailable
    /\ pc[2] = "rr_ret"
    /\ index[2] = NoIndex
    /\ hpc = "set"

\* C20: once PauseHealthChecks() has returned (pool.PauseHealthCheck is true),
\* the health-check goroutine writes no server's status until
\* ResumeHealthChecks() is called: no SetStatus() of a health-check pass
\* changes a server's Health while the flag is set.
C20_PausedMonitorWritesNothing ==
    [][(PauseHealthCheck /\ PauseHealthCheck' /\ hpc = "set" /\ hpc' # "set")
          => Health' = Health]_vars

\* C21: a pass of the health checks probes every server of the pool once, in
\* index order, and a probe that ends in an error aborts neither the pass nor
\* the loop: the servers after it are probed, the goroutine goes to sleep only
\* after the last server, and it starts its next pass from there.
C21_PassProbesAllInOrder ==
    /\ \A k \in 1 .. Len(probed) : probed[k] = k - 1
    /\ Len(probeErrs) = Len(probed)
    /\ hpc = "probe" => Len(probed) = hidx
    /\ hpc = "set" => Len(probed) = hidx + 1
    /\ hpc = "sleep" => Len(probed) \in {0, NumServers}
    /\ hpc \in {"sleep", "probe", "set"}

\* A pass whose first probe failed has probed all the servers, and the
\* goroutine is asleep before its next pass.
C21_Witness ==
    /\ hpc = "sleep"
    /\ probed = [k \in 1 .. NumServers |-> k - 1]
    /\ probeErrs[1] = "neterr"
    /\ \A k \in 2 .. NumServers : probeErrs[k] = "nil"
    /\ Health[0] = StatusDegraded
    /\ \A i \in Servers \ {0} : Health[i] = StatusHealthy

\* C22: the health checks can be stopped for good when a pool is torn down:
\* after pool.Delete() has returned, the health-check goroutine ends and makes
\* no further probe and no further status write; a goroutine that is asleep
\* then never starts another pass.
C22_DeleteStopsHealthChecks ==
    [][(deleted /\ hpc = "sleep") => hpc' = "sleep"]_vars

\* C23: the health checks and the dispatch of requests do not block each
\* other: a selection, once begun, completes (RoundRobin returns) also while a
\* probe of the health checks or the round trip of another request never
\* returns, as the pool's mutex is held neither across a probe nor across a
\* round trip.
C23_SelectCompletes ==
    (pc[1] \in {"rr_top", "rr_hit", "rr_hit_inc", "rr_miss_inc"}) ~> (pc[1] = "rr_ret")

\* A selection has returned while a probe and another round trip are under way.
C23_Witness ==
    /\ pc[1] = "rr_ret"
    /\ hpc = "probe"
    /\ pc[2] = "roundtrip"

\* The address list and the result of the NewServerPool call made.
Built ==
    constructed[1]

HasDuplicate(addrs) ==
    \E i, j \in 1 .. Len(addrs) : i < j /\ addrs[i] = addrs[j]

HasInvalid(addrs) ==
    \E i \in 1 .. Len(addrs) : IsBlank(addrs[i]) \/ Unparsable(addrs[i])

\* The index of the first entry that repeats an earlier one, and of the first
\* entry that is no valid address (Len + 1: there is none).
FirstRepeat(addrs) ==
    LET js == {j \in 1 .. Len(addrs) : \E i \in 1 .. (j - 1) : addrs[i] = addrs[j]}
    IN  IF js = {} THEN Len(addrs) + 1 ELSE CHOOSE j \in js : \A k \in js : j <= k

FirstInvalid(addrs) ==
    LET js == {j \in 1 .. Len(addrs) : IsBlank(addrs[j]) \/ Unparsable(addrs[j])}
    IN  IF js = {} THEN Len(addrs) + 1 ELSE CHOOSE j \in js : \A k \in js : j <= k

\* C24: NewServerPool with no address fails with ErrNoServerAddressForPool,
\* returns no pool and starts no health-check goroutine.
C24_EmptyListRejected ==
    (constructed # <<>> /\ Built.addrs = <<>>)
        => /\ Built.result.err = "ErrNoServerAddressForPool"
           /\ ~Built.result.ok
           /\ Built.result.monitors = 0

C24_Witness ==
    /\ constructed # <<>>
    /\ Built.addrs = <<>>
    /\ Built.result = NoPool("ErrNoServerAddressForPool")

\* C25 (as claimed): NewServerPool fails with ErrDuplicateServerAddress whenever
\* two entries of the list are the same string, wherever they are in the list,
\* returns no pool and starts no health-check goroutine; with addresses that
\* are valid and pairwise different it succeeds and starts one goroutine.
C25_DuplicateAlwaysReported ==
    constructed # <<>> =>
        /\ HasDuplicate(Built.addrs)
              => Built.result = NoPool("ErrDuplicateServerAddress")
        /\ (Built.addrs # <<>> /\ ~HasDuplicate(Built.addrs) /\ ~HasInvalid(Built.addrs))
              => /\ Built.result.err = "nil"
                 /\ Built.result.ok
                 /\ Built.result.monitors = 1

\* C25 (amended): whenever two entries of the list are the same string,
\* NewServerPool fails, returns no pool and starts no health-check goroutine;
\* the error is ErrDuplicateServerAddress unless an entry before the first
\* repeated one is no valid address, and then it is that address's error.
\* With addresses that are valid and pairwise different it succeeds and
\* starts one goroutine.
C25_DuplicateRejected ==
    constructed # <<>> =>
        /\ HasDuplicate(Built.addrs)
              => /\ ~Built.result.ok
                 /\ Built.result.monitors = 0
                 /\ Built.result.err =
                       IF FirstInvalid(Built.addrs) < FirstRepeat(Built.addrs)
                         THEN NewTargetServerErr(Built.addrs[FirstInvalid(Built.addrs)])
                         ELSE "ErrDuplicateServerAddress"
        /\ (Built.addrs # <<>> /\ ~HasDuplicate(Built.addrs) /\ ~HasInvalid(Built.addrs))
              => /\ Built.result.err = "nil"
                 /\ Built.result.ok
                 /\ Built.result.servers = Built.addrs
                 /\ Built.result.monitors = 1

\* The repeated address is the last entry, after another one.
C25_Witness ==
    /\ constructed # <<>>
    /\ Built.addrs = <<"http://a", "http://b", "http://a">>
    /\ Built.result = NoPool("ErrDuplicateServerAddress")

\* C26 (as claimed): NewTargetServer fails with ErrEmptyAddress for an empty
\* or white-space address and with the parse error for one that does not
\* parse, and NewServerPool returns that failure, and no pool, for every list
\* that has such an address.
C26_InvalidAlwaysPropagated ==
    /\ \A a \in Addresses :
          /\ IsBlank(a) => NewTargetServerErr(a) = "ErrEmptyAddress"
          /\ (~IsBlank(a) /\ Unparsable(a)) => NewTargetServerErr(a) = "Failed to parse to URL"
    /\ (constructed # <<>> /\ HasInvalid(Built.addrs))
          => /\ ~Built.result.ok
             /\ \E i \in 1 .. Len(Built.addrs) :
                   /\ NewTargetServerErr(Built.addrs[i]) # "nil"
                   /\ Built.result.err = NewTargetServerErr(Built.addrs[i])

\* C26 (amended): NewTargetServer fails with ErrEmptyAddress for an empty or
\* white-space address and with the parse error for one that does not parse,
\* and NewServerPool returns no pool for every list that has such an address;
\* its error is the one of the first such address, unless an entry before it
\* repeats an earlier entry, and then it is ErrDuplicateServerAddress.
C26_InvalidRejected ==
    /\ \A a \in Addresses :
          /\ IsBlank(a) => NewTargetServerErr(a) = "ErrEmptyAddress"
          /\ (~IsBlank(a) /\ Unparsable(a)) => NewTargetServerErr(a) = "Failed to parse to URL"
    /\ (constructed # <<>> /\ HasInvalid(Built.addrs))
          => /\ ~Built.result.ok
             /\ Built.result.monitors = 0
             /\ Built.result.err =
                   IF FirstRepeat(Built.addrs) < FirstInvalid(Built.addrs)
                     THEN "ErrDuplicateServerAddress"
                     ELSE NewTargetServerErr(Built.addrs[FirstInvalid(Built.addrs)])

\* A white-space address after a valid one.
C26_Witness ==
    /\ constructed # <<>>
    /\ Built.addrs = <<"http://a", " ">>
    /\ Built.result = NoPool("ErrEmptyAddress")

\* The path without its last character if that is a slash, and without its
\* first character if that is a slash.
DropSuffixSlash(a) ==
    IF Len(a) > 0 /\ a[Len(a)] = "/" THEN SubSeq(a, 1, Len(a) - 1) ELSE a

DropPrefixSlash(b) ==
    IF Len(b) > 0 /\ b[1] = "/" THEN SubSeq(b, 2, Len(b)) ELSE b

\* C27: the path of the rewritten request is the target's path prefix joined
\* with the request's path with one slash at the join, in the four cases of
\* the prefix ending or not ending with a slash and the path starting or not
\* starting with one: what is left of the prefix without its ending slash,
\* one slash, and what is left of the path without its leading slash.
C27_OneSlashAtJoin ==
    \A k \in 1 .. Len(joined) :
        joined[k].result =
            DropSuffixSlash(joined[k].prefix) \o <<"/">> \o DropPrefixSlash(joined[k].path)

C27_Witness ==
    /\ joined # <<>>
    /\ joined[1].prefix = <<"x", "/">>
    /\ joined[1].path = <<"/", "x">>
    /\ joined[1].result = <<"x", "/", "x">>

\* C28: SetStatus logs an event on a change of state only: over every
\* execution, the calls of the health-check goroutine and of the request
\* goroutines for the same server included, the 'being unhealthy' events are
\* as many as the changes from Healthy to Degraded and the 'marked healthy'
\* events as many as the changes from Degraded to Healthy, once the calls
\* have returned; a write of the status a server has logs none.
C28_EventsAreTransitions ==
    (\A g \in Callers : setting[g] = <<>>) =>
        \A status \in HealthStatus : nEvents[status] = nChanges[status]

C31_DirectPassIgnoresPause ==
    refreshed # <<>> =>
        /\ Len(refreshed) = NumServers
        /\ \A k \in 1 .. NumServers :
              /\ refreshed[k].server = k - 1
              /\ Health[k - 1] = IF refreshed[k].probe = "healthy"
                                    THEN StatusHealthy
                                    ELSE StatusDegraded
              /\ refreshed[k].op = "RunHealthCheck" =>
                    refreshed[k].pausedAfter = refreshed[k].paused
              /\ refreshed[k].op = "Normalize" => refreshed[k].pausedAfter = FALSE

\* RunHealthCheck() was called with the health checks paused and has marked
\* Healthy a server that was Degraded; the health checks are still paused.
C31_Witness ==
    /\ refreshed # <<>>
    /\ refreshed[1].op = "RunHealthCheck"
    /\ refreshed[1].paused
    /\ PauseHealthCheck
    /\ \E k \in 1 .. NumServers :
          /\ refreshed[k].before = StatusDegraded
          /\ Health[k - 1] = StatusHealthy

\* C32: a call of RoundRobin, made with no other call at the same time, that
\* finds no healthy server has called IncrementCurrentIndex once per server it
\* looked at, N times in all, so that it returns its error with
\* pool.CurrentIndex where it was before the call.
C32_FailedCallKeepsIndex ==
    /\ (pc[1] \in {"rr_top", "rr_miss_inc"} /\ AllDegraded(Health))
          => CurrentIndex = (startIndex + cnt[1]) % NumServers
    /\ (pc[1] = "rr_ret" /\ index[1] = NoIndex)
          => CurrentIndex = startIndex

\* A second call in a row has failed, with the index at 1 before and after.
C32_Witness ==
    /\ pc[1] = "rr_ret"
    /\ index[1] = NoIndex
    /\ Len(returns) = 1
    /\ Returned(1) = NoIndex
    /\ startIndex = 1
    /\ CurrentIndex = 1

\* The RoundRobin calls that have advanced pool.CurrentIndex on a hit: the
\* calls that have returned and those that are about to.
Advanced ==
    Len(returns) + Cardinality({t \in Tasks : pc[t] = "rr_ret"})

\* C33: no advance of pool.CurrentIndex is lost: while calls of RoundRobin run
\* at the same time on a pool whose servers are all Healthy, the index is its
\* value before the calls plus the number of calls that have advanced it,
\* modulo N; so it is (c + M) mod N when M calls have returned.
C33_NoAdvanceLost ==
    AllHealthy(Health) =>
        /\ CurrentIndex = (startIndex + Advanced) % NumServers
        /\ (Len(returns) = NumTasks /\ \A t \in Tasks : pc[t] = "idle")
              => CurrentIndex = (startIndex + NumTasks) % NumServers

\* NumTasks calls made at the same time have returned, and the index, which
\* was at the last server, has wrapped.
C33_Witness ==
    /\ AllHealthy(Health)
    /\ Len(returns) = NumTasks
    /\ \A t \in Tasks : pc[t] = "idle"
    /\ \A t \in Tasks : \E k \in 1 .. Len(returns) : returns[k][1] = t
    /\ startIndex = NumServers - 1
    /\ CurrentIndex = (NumServers - 1 + NumTasks) % NumServers

\* C34: the selection that follows a server's 500 within a request returns
\* another server than the one that has just answered 500, also while the
\* health checks run.
C34_RetryGoesElsewhere ==
    \A t \in Tasks :
        (pc[t] = "rr_ret" /\ retried[t] # NoIndex /\ index[t] # NoIndex)
            => index[t] # retried[t]

\* C35: when a request is retried after a 500, the request forwarded to the
\* newly selected target has that target's path prefix joined with the path
\* the client sent, and that target's query combined with the query the
\* client sent: nothing of the rewrite for the earlier target is left in it.
C35_RetryRewritesOriginal ==
    \A k \in 1 .. Len(joined) :
        joined[k].attempt > 1 =>
            /\ joined[k].result =
                  DropSuffixSlash(joined[k].prefix) \o <<"/">>
                      \o DropPrefixSlash(joined[k].orig)
            /\ joined[k].rawQuery = JoinQuery(joined[k].tquery, joined[k].origQuery)

\* C36: the only change the dispatching of requests makes to the servers'
\* health is that the server that has just answered a request with 500 is set
\* Degraded: no other server changes with it, no server is set Healthy, and a
\* step that writes a response to the client (after a failed selection, a
\* transport error or any other response) changes no server's health.
C36_DispatchOnlyDegradesOn500 ==
    [][ /\ Health' # Health =>
              \E t \in Tasks :
                  /\ pc[t] = "handle"
                  /\ resp[t] = StatusInternalServerError
                  /\ pc'[t] = "rr_top"
                  /\ Health' = [Health EXCEPT ![index[t]] = StatusDegraded]
        /\ \A t \in Tasks :
              (pc[t] # "done" /\ pc'[t] = "done") => Health' = Health ]_vars

\* A request has degraded server 0, which answered 500, and it alone: the
\* other servers are still Healthy.
C36_Witness ==
    /\ pc[1] = "rr_top"
    /\ tried[1] = << <<0, StatusInternalServerError>> >>
    /\ nDeg[1] = 1
    /\ pc[2] = "idle"
    /\ Health = [i \in Servers |-> IF i = 0 THEN StatusDegraded ELSE StatusHealthy]

\* The steps of RoundRobin that goroutine t can make.
InRoundRobin(t) ==
    pc[t] \in {"rr_top", "rr_hit", "rr_hit_inc", "rr_miss_inc"}

\* C37: selecting and updating health touch different things.  No step of
\* RoundRobin (GetTargetServer), with its IsHealthy() tests, changes a
\* server's health; pool.CurrentIndex changes only in RoundRobin's calls of
\* IncrementCurrentIndex, so that SetStatus, Degrade, RefreshHealthStatus,
\* RunHealthCheck, DegradeAll and HealthyAll never change it; and no step
\* changes both.
C37_SelectAndHealthDisjoint ==
    [][ /\ \A t \in Tasks :
              (InRoundRobin(t) /\ pc'[t] # pc[t]) => Health' = Health
        /\ CurrentIndex' # CurrentIndex =>
              \E t \in Tasks :
                  /\ pc[t] \in {"rr_hit_inc", "rr_miss_inc"}
                  /\ pc'[t] # pc[t]
        /\ Health' # Health => CurrentIndex' = CurrentIndex ]_vars

\* A selection is about to advance the index from 2 in a pool whose servers
\* have all been set Healthy since NewServerPool: the index was moved by
\* selections and the health by the health updates.
C37_Witness ==
    /\ AllHealthy(Health)
    /\ CurrentIndex = 2
    /\ pc[1] = "rr_hit_inc"
    /\ index[1] = 2

\* C38 (as claimed): while no server is set Healthy (the health checks are
\* paused), a request makes at most N round trips and at most N + 1
\* selections before it responds.
C38_AtMostNRoundTrips ==
    /\ Len(tried[1]) <= NumServers
    /\ nSel[1] <= NumServers + 1

\* C39: a server that a request has degraded because of a 500 stays Degraded
\* until a probe made after the Degrade() reports "healthy": the status of a
\* probe that was made before the Degrade() is not set afterwards.
C39_StaleProbeNotSet ==
    [][(late /\ Health[hidx] = StatusDegraded) => Health'[hidx] = StatusDegraded]_vars
=============================================================================
